---- MODULE Spec2Model ----
(***************************************************************************)
(* Model of the digigurdy string voices (GurdyString, gurdystring.cpp) and  *)
(* of the mute cycle/toggle functions (exfunctions.cpp).                    *)
(*                                                                         *)
(* The program state is gathered in one "world" record so that each C++    *)
(* method is an operator from world to world, written statement by         *)
(* statement; the actions apply these operators to the variables.          *)
(***************************************************************************)
EXTENDS Integers, Sequences, FiniteSets, TLC

VARIABLES build,        \* build configuration: which #if branch is compiled
          str,          \* the GurdyString objects, by global pointer name
          mel_mode,     \* exfunctions.cpp globals
          drone_mode,
          t_mode,
          myoffset,     \* key offset of the melody strings (global)
          tpose_offset, \* transpose (global)
          synth,        \* notes outstanding at each output port, per channel
          sent,         \* commands emitted by the latest call, in order
          disp,         \* display calls made by the latest call, in order
          last_on,      \* history: note and mute flag of the soundOn that started
                        \* each string, until its soundOff or soundKill
          op,           \* the latest call: <<name, voice, arg>>
          crank,        \* the geared crank: voltage sample, spin, sound, buzz counter
          crank_h       \* history: lengths of the current runs of samples

vars == <<build, str, mel_mode, drone_mode, t_mode, myoffset, tpose_offset,
          synth, sent, disp, last_on, op, crank, crank_h>>

----------------------------------------------------------------------------
(* Bounds of the model *)

MaxOffset == 1          \* key offsets given to soundOn are 0..MaxOffset
MaxOpenStep == 1        \* setOpenNote moves the open note by 0..MaxOpenStep
MaxRise == 5            \* the run of motion samples from rest is counted up to here
MaxFall == 40           \* the run of still samples from full spin, likewise
MaxSince == 252         \* the updates since the latest buzz trigger, likewise

(* Program constants *)

capo_offset == 0
play_screen_type == 0

Builds == {"MIDI", "USE_TRIGGER", "USE_TSUNAMI"}
Ports == {"usbMIDI", "MIDI", "trigger_obj"}

Voices == {"mystring", "mylowstring", "mydrone", "mytromp", "mybuzz"}
MelodyVoices == {"mystring", "mylowstring"}

Channel(v) == CASE v = "mystring" -> 1
                [] v = "mylowstring" -> 2
                [] v = "mydrone" -> 3
                [] v = "mytromp" -> 4
                [] v = "mybuzz" -> 5
Channels == {Channel(v) : v \in Voices}

BaseNote(v) == CASE v = "mystring" -> 67
                 [] v = "mylowstring" -> 55
                 [] v = "mydrone" -> 48
                 [] v = "mytromp" -> 60
                 [] v = "mybuzz" -> 62

BaseVolume == 112
MaxVolume == 127         \* MIDI volume: 0 = silent, 127 = full volume
Volumes == {8, 112}
Modulations == {0, 16}
Tposes == {2}           \* the transpose in effect
Programs == {46}
Expressions == {90}
Bends == {8192}

----------------------------------------------------------------------------
(* GurdyString *)

\* int((vol)/128.0 * 80 - 70): C++ conversion to int truncates toward zero
TriggerVolume(vol) ==
  LET n == vol * 80 - 70 * 128
  IN IF n >= 0 THEN n \div 128 ELSE -((-n) \div 128)

\* The constructor assigns neither mute_on nor is_playing: they keep the
\* initial values of their declarations, unmuted and not playing.
GurdyString(my_channel, my_note, my_name, my_vol) ==
  [midi_channel |-> my_channel,
   name |-> my_name,
   open_note |-> my_note,
   midi_volume |-> my_vol,
   trigger_volume |-> TriggerVolume(my_vol),
   note_being_played |-> my_note,
   mute_on |-> FALSE,
   is_playing |-> FALSE]

\* track number of a note on the WAV Trigger / Tsunami
TrackId(note, ch) == note + (128 * (ch - 1))
TrackCh(id) == (id \div 128) + 1
TrackNote(id) == id % 128

Cmd(port, cmd, id, val, ch) ==
  [port |-> port, cmd |-> cmd, id |-> id, val |-> val, ch |-> ch]

RECURSIVE RemoveFirst(_, _)
RemoveFirst(s, x) ==
  IF s = <<>> THEN <<>>
  ELSE IF Head(s) = x THEN Tail(s)
  ELSE <<Head(s)>> \o RemoveFirst(Tail(s), x)

\* history value of a string that no soundOn has started
NeverOn == [note |-> -1, muted |-> FALSE]

NoNotes == [ch \in Channels |-> <<>>]

\* what the device behind a port does with a command
Deliver(sy, c) ==
  CASE c.cmd = "sendNoteOn" ->
         [sy EXCEPT ![c.port][c.ch] = Append(@, c.id)]
    [] c.cmd = "sendNoteOff" ->
         [sy EXCEPT ![c.port][c.ch] = RemoveFirst(@, c.id)]
    [] c.cmd = "sendControlChange" /\ c.id = 123 ->
         [sy EXCEPT ![c.port][c.ch] = <<>>]
    [] c.cmd = "trackPlayPoly" ->
         [sy EXCEPT ![c.port][TrackCh(c.id)] = Append(@, TrackNote(c.id))]
    [] c.cmd = "trackFade" ->
         [sy EXCEPT ![c.port][TrackCh(c.id)] = RemoveFirst(@, TrackNote(c.id))]
    [] c.cmd = "stopAllTracks" ->
         [sy EXCEPT ![c.port] = NoNotes]
    [] OTHER -> sy

Emit(w, c) == [w EXCEPT !.sent = Append(@, c), !.synth = Deliver(@, c)]

RECURSIVE EmitAll(_, _)
EmitAll(w, cs) ==
  IF cs = <<>> THEN w ELSE EmitAll(Emit(w, Head(cs)), Tail(cs))

\* soundOn that forgets the mute check
soundOn_ignoresMute(w, v, my_offset, my_modulation) ==
  LET note == w.str[v].open_note + my_offset
      s == [w.str[v] EXCEPT !.note_being_played = note]
      ch == s.midi_channel
      w1 == [w EXCEPT !.str[v] = s]
      noteOn ==
        <<Cmd("usbMIDI", "sendNoteOn", note, s.midi_volume, ch)>> \o
        (IF build = "MIDI"
           THEN <<Cmd("MIDI", "sendNoteOn", note, s.midi_volume, ch)>>
           ELSE <<Cmd("trigger_obj", "trackGain", TrackId(note, ch), s.trigger_volume, 0),
                  Cmd("trigger_obj", "trackPlayPoly", TrackId(note, ch), 1, 0),
                  Cmd("trigger_obj", "trackLoop", TrackId(note, ch), 1, 0)>>)
      w2 == EmitAll(w1, noteOn)
  IN [w2 EXCEPT !.str[v].is_playing = TRUE,
                !.last_on[v] = [note |-> w.str[v].open_note + my_offset,
                                muted |-> w.str[v].mute_on]]

soundOn(w, v, my_offset, my_modulation) ==
  LET note == w.str[v].open_note + my_offset
      s == [w.str[v] EXCEPT !.note_being_played = note]
      ch == s.midi_channel
      w1 == [w EXCEPT !.str[v] = s]
      noteOn ==
        <<Cmd("usbMIDI", "sendNoteOn", note, s.midi_volume, ch)>> \o
        (IF build = "MIDI"
           THEN <<Cmd("MIDI", "sendNoteOn", note, s.midi_volume, ch)>>
           ELSE <<Cmd("trigger_obj", "trackGain", TrackId(note, ch), s.trigger_volume, 0),
                  Cmd("trigger_obj", "trackPlayPoly", TrackId(note, ch), 1, 0),
                  Cmd("trigger_obj", "trackLoop", TrackId(note, ch), 1, 0)>>)
      modOn ==
        IF my_modulation > 0
          THEN <<Cmd("usbMIDI", "sendControlChange", 1, my_modulation, ch)>> \o
               (IF build = "MIDI"
                  THEN <<Cmd("MIDI", "sendControlChange", 1, my_modulation, ch)>>
                  ELSE <<>>)
          ELSE <<>>
      w2 == IF ~s.mute_on THEN EmitAll(w1, noteOn \o modOn) ELSE w1
  IN [w2 EXCEPT !.str[v].is_playing = TRUE,
                !.last_on[v] = [note |-> w.str[v].open_note + my_offset,
                                muted |-> w.str[v].mute_on]]

\* soundOff that turns off the open note instead of the note being played
soundOff_openNote(w, v) ==
  LET s == w.str[v]
      ch == s.midi_channel
      note == s.open_note
      noteOff ==
        <<Cmd("usbMIDI", "sendNoteOff", note, s.midi_volume, ch)>> \o
        (IF build = "MIDI"
           THEN <<Cmd("MIDI", "sendNoteOff", note, s.midi_volume, ch)>>
           ELSE IF s.trigger_volume > -60
             THEN <<Cmd("trigger_obj", "trackFade", TrackId(note, ch), s.trigger_volume - 10, 0)>>
             ELSE <<Cmd("trigger_obj", "trackFade", TrackId(note, ch), -70, 0)>>)
      w1 == EmitAll(w, noteOff)
  IN [w1 EXCEPT !.str[v].is_playing = FALSE, !.last_on[v] = NeverOn]

soundOff(w, v) ==
  LET s == w.str[v]
      ch == s.midi_channel
      note == s.note_being_played
      noteOff ==
        <<Cmd("usbMIDI", "sendNoteOff", note, s.midi_volume, ch)>> \o
        (IF build = "MIDI"
           THEN <<Cmd("MIDI", "sendNoteOff", note, s.midi_volume, ch)>>
           ELSE IF s.trigger_volume > -60
             THEN <<Cmd("trigger_obj", "trackFade", TrackId(note, ch), s.trigger_volume - 10, 0)>>
             ELSE <<Cmd("trigger_obj", "trackFade", TrackId(note, ch), -70, 0)>>)
      w1 == EmitAll(w, noteOff)
  IN [w1 EXCEPT !.str[v].is_playing = FALSE, !.last_on[v] = NeverOn]

\* soundKill with the serial MIDI call outside the #if
soundKill_bothTransports(w, v) ==
  LET ch == w.str[v].midi_channel
      kill ==
        <<Cmd("usbMIDI", "sendControlChange", 123, 0, ch),
          Cmd("MIDI", "sendControlChange", 123, 0, ch)>> \o
        (IF build = "MIDI"
           THEN <<>>
           ELSE <<Cmd("trigger_obj", "stopAllTracks", 0, 0, 0)>>)
      w1 == EmitAll(w, kill)
  IN [w1 EXCEPT !.str[v].is_playing = FALSE, !.last_on[v] = NeverOn]

soundKill(w, v) ==
  LET ch == w.str[v].midi_channel
      kill ==
        <<Cmd("usbMIDI", "sendControlChange", 123, 0, ch)>> \o
        (IF build = "MIDI"
           THEN <<Cmd("MIDI", "sendControlChange", 123, 0, ch)>>
           ELSE <<Cmd("trigger_obj", "stopAllTracks", 0, 0, 0)>>)
      w1 == EmitAll(w, kill)
  IN [w1 EXCEPT !.str[v].is_playing = FALSE, !.last_on[v] = NeverOn]

getOpenNote(w, v) == w.str[v].open_note

setOpenNote(w, v, new_note) == [w EXCEPT !.str[v].open_note = new_note]

\* setVolume that leaves the derived gain of the constructor in place
setVolume_keepsGain(w, v, vol) ==
  [w EXCEPT !.str[v].midi_volume = vol]

setVolume(w, v, vol) ==
  [w EXCEPT !.str[v].midi_volume = vol,
            !.str[v].trigger_volume = TriggerVolume(vol)]

getVolume(w, v) == w.str[v].midi_volume

\* setMute that also stops the string's bookkeeping when muting
setMute_stops(w, v, mute) ==
  [w EXCEPT !.str[v].mute_on = mute,
            !.str[v].is_playing = IF mute THEN FALSE ELSE @]

setMute(w, v, mute) == [w EXCEPT !.str[v].mute_on = mute]

getMute(w, v) == w.str[v].mute_on

isPlaying(w, v) == w.str[v].is_playing

\* a MIDI message sent to USB MIDI and, unless a trigger build, to serial MIDI
BothMidi(cmd, id, val, ch) ==
  <<Cmd("usbMIDI", cmd, id, val, ch)>> \o
  (IF build = "MIDI" THEN <<Cmd("MIDI", cmd, id, val, ch)>> ELSE <<>>)

setProgram(w, v, program) ==
  EmitAll(w, BothMidi("sendProgramChange", program, 0, w.str[v].midi_channel))

setExpression(w, v, exp) ==
  EmitAll(w, BothMidi("sendControlChange", 11, exp, w.str[v].midi_channel))

setPitchBend(w, v, bend) ==
  EmitAll(w, BothMidi("sendPitchBend", bend, 0, w.str[v].midi_channel))

setVibrato(w, v, vib) ==
  EmitAll(w, BothMidi("sendControlChange", 1, vib, w.str[v].midi_channel))

----------------------------------------------------------------------------
(* The geared crank: the spin estimator, the start/stop decision and the    *)
(* buzz smoothing, with the constants of config.h                           *)

VOL_THRESHOLD == 5
MAX_SPIN == 7600
SPIN_WEIGHT == 2500
SPIN_DECAY == 200
SPIN_THRESHOLD == 5001
SPIN_STOP_THRESHOLD == 1000
BUZZ_SMOOTHING == 250
BUZZ_DECAY == 1

\* the voltage above which the buzz knob lets the crank buzz
KnobVoltage == 300

\* the samples: still, at the motion threshold, moving, moving and buzzing
Voltages == {0, VOL_THRESHOLD, VOL_THRESHOLD + 1, KnobVoltage + 1}

Min(a, b) == IF a < b THEN a ELSE b
Max(a, b) == IF a > b THEN a ELSE b

CrankAtRest == [voltage |-> 0, spin |-> 0, spinning |-> FALSE, buzz_smoothing |-> 0]

\* spin update that forgets the cap
spinUpdate_noCap(c, voltage) ==
  IF voltage > VOL_THRESHOLD
    THEN [c EXCEPT !.voltage = voltage, !.spin = c.spin + SPIN_WEIGHT]
    ELSE [c EXCEPT !.voltage = voltage, !.spin = Max(c.spin - SPIN_DECAY, 0)]

\* spin update that decays twice on a still sample
spinUpdate_fastDecay(c, voltage) ==
  IF voltage > VOL_THRESHOLD
    THEN [c EXCEPT !.voltage = voltage, !.spin = Min(c.spin + SPIN_WEIGHT, MAX_SPIN)]
    ELSE [c EXCEPT !.voltage = voltage, !.spin = Max(c.spin - 2 * SPIN_DECAY, 0)]

\* a sample above the motion threshold adds the weight, up to the maximum;
\* any other sample subtracts the decay, down to zero
spinUpdate(c, voltage) ==
  IF voltage > VOL_THRESHOLD
    THEN [c EXCEPT !.voltage = voltage, !.spin = Min(c.spin + SPIN_WEIGHT, MAX_SPIN)]
    ELSE [c EXCEPT !.voltage = voltage, !.spin = Max(c.spin - SPIN_DECAY, 0)]

\* start/stop decision with the start threshold used for stopping too
soundUpdate_oneThreshold(c) ==
  [c EXCEPT !.spinning = c.spin >= SPIN_THRESHOLD]

\* sound starts when spin is at least the start threshold and stops only
\* when spin is below the stop threshold
soundUpdate(c) ==
  IF ~c.spinning
    THEN [c EXCEPT !.spinning = c.spin >= SPIN_THRESHOLD]
    ELSE [c EXCEPT !.spinning = ~(c.spin < SPIN_STOP_THRESHOLD)]

\* buzz update that decays on the triggering update as well
buzzUpdate_alwaysDecays(c) ==
  IF c.voltage > KnobVoltage
    THEN [c EXCEPT !.buzz_smoothing = BUZZ_SMOOTHING - BUZZ_DECAY]
    ELSE [c EXCEPT !.buzz_smoothing = Max(c.buzz_smoothing - BUZZ_DECAY, 0)]

\* the counter is set when the voltage exceeds the knob's, and decays on
\* every other update while it is positive
buzzUpdate(c) ==
  IF c.voltage > KnobVoltage
    THEN [c EXCEPT !.buzz_smoothing = BUZZ_SMOOTHING]
    ELSE [c EXCEPT !.buzz_smoothing = Max(c.buzz_smoothing - BUZZ_DECAY, 0)]

\* the buzz sounds while the counter is positive
isBuzzing(c) == c.buzz_smoothing > 0

\* one update of the crank with a voltage sample
crankUpdate(c, voltage) == buzzUpdate(soundUpdate(spinUpdate(c, voltage)))

\* history: rise = motion samples in a row since spin was 0, fall = still
\* samples in a row since spin was MAX_SPIN, since = updates since the
\* latest buzz trigger; -1 when there is no such run
NoRuns == [rise |-> -1, fall |-> -1, since |-> -1]

Runs(h, c, voltage) ==
  LET motion == voltage > VOL_THRESHOLD
  IN [rise |-> IF ~motion THEN -1
               ELSE IF c.spin = 0 THEN 1
               ELSE IF h.rise >= 0 THEN Min(h.rise + 1, MaxRise) ELSE -1,
      fall |-> IF motion THEN -1
               ELSE IF c.spin = MAX_SPIN THEN 1
               ELSE IF h.fall >= 0 THEN Min(h.fall + 1, MaxFall) ELSE -1,
      since |-> IF voltage > KnobVoltage THEN 0
                ELSE IF h.since >= 0 THEN Min(h.since + 1, MaxSince) ELSE -1]

----------------------------------------------------------------------------
(* The variables as a world record, and back *)

World ==
  [str |-> str, mel_mode |-> mel_mode, drone_mode |-> drone_mode,
   t_mode |-> t_mode, synth |-> synth, sent |-> sent, disp |-> disp,
   last_on |-> last_on]

\* a call starts with nothing emitted and nothing drawn
Entry == [World EXCEPT !.sent = <<>>, !.disp = <<>>]

Becomes(w, call) ==
  /\ str' = w.str
  /\ mel_mode' = w.mel_mode
  /\ drone_mode' = w.drone_mode
  /\ t_mode' = w.t_mode
  /\ synth' = w.synth
  /\ sent' = w.sent
  /\ disp' = w.disp
  /\ last_on' = w.last_on
  /\ op' = call
  /\ UNCHANGED <<build, myoffset, tpose_offset, crank, crank_h>>

Init ==
  /\ build \in Builds
  /\ str = [v \in Voices |-> GurdyString(Channel(v), BaseNote(v), v, BaseVolume)]
  /\ mel_mode = 0
  /\ drone_mode = 0
  /\ t_mode = 0
  /\ myoffset \in 0..MaxOffset
  /\ tpose_offset \in Tposes
  /\ synth = [p \in Ports |-> NoNotes]
  /\ sent = <<>>
  /\ disp = <<>>
  /\ last_on = [v \in Voices |-> NeverOn]
  /\ op = <<"init", "", 0>>
  /\ crank = CrankAtRest
  /\ crank_h = NoRuns

----------------------------------------------------------------------------
(* The mute modes, as named by the comments of exfunctions.cpp *)

\* mel_mode: 0 == high on, low on; 1 == high on, low off; 2 == high off, low on
MelState(m) == CASE m = 0 -> "BOTH_ON"
                 [] m = 1 -> "HIGH_ONLY"
                 [] m = 2 -> "LOW_ONLY"

\* drone_mode: 0 == both on; 1 == both off; 2 == drone on, tromp off;
\* 3 == drone off, tromp on
DroneState(m) == CASE m = 0 -> "BOTH_ON"
                   [] m = 1 -> "BOTH_OFF"
                   [] m = 2 -> "DRONE_ONLY"
                   [] m = 3 -> "TROMP_ONLY"

----------------------------------------------------------------------------
(* Display calls of exfunctions.cpp *)

draw_play_screen(w, note, screen_type, redraw) ==
  [w EXCEPT !.disp = Append(@, [fn |-> "draw_play_screen",
                                args |-> <<note, screen_type, redraw>>])]

print_display(w, args) ==
  [w EXCEPT !.disp = Append(@, [fn |-> "print_display", args |-> args])]

\* the refresh with the transpose left out of the note
Refresh_noTranspose(w) ==
  IF isPlaying(w, "mystring")
    THEN draw_play_screen(w, getOpenNote(w, "mystring") + myoffset,
                          play_screen_type, FALSE)
    ELSE print_display(w,
           <<getOpenNote(w, "mystring"), getOpenNote(w, "mylowstring"),
             getOpenNote(w, "mydrone"), getOpenNote(w, "mytromp"),
             tpose_offset, capo_offset, myoffset,
             getMute(w, "mystring"), getMute(w, "mylowstring"),
             getMute(w, "mydrone"), getMute(w, "mytromp")>>)

\* the if/else that ends each of the four cycle functions
Refresh(w) ==
  IF isPlaying(w, "mystring")
    THEN draw_play_screen(w, getOpenNote(w, "mystring") + tpose_offset + myoffset,
                          play_screen_type, FALSE)
    ELSE print_display(w,
           <<getOpenNote(w, "mystring"), getOpenNote(w, "mylowstring"),
             getOpenNote(w, "mydrone"), getOpenNote(w, "mytromp"),
             tpose_offset, capo_offset, myoffset,
             getMute(w, "mystring"), getMute(w, "mylowstring"),
             getMute(w, "mydrone"), getMute(w, "mytromp")>>)

\* x->soundOff(); x->soundOn();   (soundOn with its default arguments)
\* the re-trigger with the soundOff left out
Retrigger_noOff(w, v) == soundOn(w, v, 0, 0)

Retrigger(w, v) == soundOn(soundOff(w, v), v, 0, 0)

\* the three setMute calls on drone, trompette and buzz
SetDroneTrompMute(w, d, t) ==
  setMute(setMute(setMute(w, "mydrone", d), "mytromp", t), "mybuzz", t)

----------------------------------------------------------------------------
(* exfunctions.cpp *)

\* cycle_mel_mute with the high-only and low-only steps in the other order
cycle_mel_mute_swapped(w) ==
  LET body ==
        IF w.mel_mode = 0 THEN
          LET a == setMute(setMute([w EXCEPT !.mel_mode = 2],
                                   "mystring", TRUE), "mylowstring", FALSE)
          IN IF isPlaying(a, "mystring")
               THEN Retrigger(Retrigger(a, "mystring"), "mylowstring") ELSE a
        ELSE IF w.mel_mode = 2 THEN
          LET a == setMute(setMute([w EXCEPT !.mel_mode = 1],
                                   "mystring", FALSE), "mylowstring", TRUE)
          IN IF isPlaying(a, "mylowstring")
               THEN Retrigger(a, "mylowstring") ELSE a
        ELSE IF w.mel_mode = 1 THEN
          LET a == setMute(setMute([w EXCEPT !.mel_mode = 0],
                                   "mystring", FALSE), "mylowstring", FALSE)
          IN IF isPlaying(a, "mystring")
               THEN Retrigger(a, "mystring") ELSE a
        ELSE w
  IN Refresh(body)

\* cycle_mel_mute whose second step forgets to unmute the low string
cycle_mel_mute_bothMuted(w) ==
  LET body ==
        IF w.mel_mode = 0 THEN
          LET a == setMute(setMute([w EXCEPT !.mel_mode = 1],
                                   "mystring", FALSE), "mylowstring", TRUE)
          IN IF isPlaying(a, "mylowstring")
               THEN Retrigger(a, "mylowstring") ELSE a
        ELSE IF w.mel_mode = 1 THEN
          LET a == setMute([w EXCEPT !.mel_mode = 2], "mystring", TRUE)
          IN IF isPlaying(a, "mystring")
               THEN Retrigger(Retrigger(a, "mystring"), "mylowstring") ELSE a
        ELSE IF w.mel_mode = 2 THEN
          LET a == setMute(setMute([w EXCEPT !.mel_mode = 0],
                                   "mystring", FALSE), "mylowstring", FALSE)
          IN IF isPlaying(a, "mystring")
               THEN Retrigger(a, "mystring") ELSE a
        ELSE w
  IN Refresh(body)

cycle_mel_mute(w) ==
  LET body ==
        IF w.mel_mode = 0 THEN
          LET a == setMute(setMute([w EXCEPT !.mel_mode = 1],
                                   "mystring", FALSE), "mylowstring", TRUE)
          IN IF isPlaying(a, "mylowstring")
               THEN Retrigger(a, "mylowstring") ELSE a
        ELSE IF w.mel_mode = 1 THEN
          LET a == setMute(setMute([w EXCEPT !.mel_mode = 2],
                                   "mystring", TRUE), "mylowstring", FALSE)
          IN IF isPlaying(a, "mystring")
               THEN Retrigger(Retrigger(a, "mystring"), "mylowstring") ELSE a
        ELSE IF w.mel_mode = 2 THEN
          LET a == setMute(setMute([w EXCEPT !.mel_mode = 0],
                                   "mystring", FALSE), "mylowstring", FALSE)
          IN IF isPlaying(a, "mystring")
               THEN Retrigger(a, "mystring") ELSE a
        ELSE w
  IN Refresh(body)

\* cycle_drone_tromp_mute that goes from drone-only straight to both on
cycle_drone_tromp_mute_skips(w) ==
  LET body ==
        IF w.drone_mode = 0 THEN
          LET a == SetDroneTrompMute([w EXCEPT !.drone_mode = 1], TRUE, TRUE)
          IN IF isPlaying(a, "mydrone")
               THEN Retrigger(Retrigger(a, "mydrone"), "mytromp") ELSE a
        ELSE IF w.drone_mode = 1 THEN
          LET a == SetDroneTrompMute([w EXCEPT !.drone_mode = 2], FALSE, TRUE)
          IN IF isPlaying(a, "mydrone")
               THEN Retrigger(a, "mydrone") ELSE a
        ELSE IF w.drone_mode = 2 \/ w.drone_mode = 3 THEN
          LET a == SetDroneTrompMute([w EXCEPT !.drone_mode = 0], FALSE, FALSE)
          IN IF isPlaying(a, "mydrone")
               THEN Retrigger(a, "mydrone") ELSE a
        ELSE w
  IN Refresh(body)

cycle_drone_tromp_mute(w) ==
  LET body ==
        IF w.drone_mode = 0 THEN
          LET a == SetDroneTrompMute([w EXCEPT !.drone_mode = 1], TRUE, TRUE)
          IN IF isPlaying(a, "mydrone")
               THEN Retrigger(Retrigger(a, "mydrone"), "mytromp") ELSE a
        ELSE IF w.drone_mode = 1 THEN
          LET a == SetDroneTrompMute([w EXCEPT !.drone_mode = 2], FALSE, TRUE)
          IN IF isPlaying(a, "mydrone")
               THEN Retrigger(a, "mydrone") ELSE a
        ELSE IF w.drone_mode = 2 THEN
          LET a == SetDroneTrompMute([w EXCEPT !.drone_mode = 3], TRUE, FALSE)
          IN IF isPlaying(a, "mydrone")
               THEN Retrigger(Retrigger(a, "mydrone"), "mytromp") ELSE a
        ELSE IF w.drone_mode = 3 THEN
          LET a == SetDroneTrompMute([w EXCEPT !.drone_mode = 0], FALSE, FALSE)
          IN IF isPlaying(a, "mydrone")
               THEN Retrigger(a, "mydrone") ELSE a
        ELSE w
  IN Refresh(body)

\* cycle_drone_mute that sets all the mute flags of the mode it enters
cycle_drone_mute_setsBoth(w) ==
  LET body ==
        IF w.drone_mode = 0 \/ w.drone_mode = 2 THEN
          LET a == SetDroneTrompMute(
                     [w EXCEPT !.drone_mode = IF w.drone_mode = 0 THEN 3 ELSE 1],
                     TRUE, w.drone_mode = 2)
          IN IF isPlaying(a, "mydrone")
               THEN Retrigger(a, "mydrone") ELSE a
        ELSE IF w.drone_mode = 1 \/ w.drone_mode = 3 THEN
          LET a == SetDroneTrompMute(
                     [w EXCEPT !.drone_mode = IF w.drone_mode = 1 THEN 2 ELSE 0],
                     FALSE, w.drone_mode = 1)
          IN IF isPlaying(a, "mydrone")
               THEN Retrigger(a, "mydrone") ELSE a
        ELSE w
  IN Refresh(body)

\* cycle_drone_mute with the two mode assignments of each branch exchanged
cycle_drone_mute_crossed(w) ==
  LET body ==
        IF w.drone_mode = 0 \/ w.drone_mode = 2 THEN
          LET a == setMute([w EXCEPT !.drone_mode = IF w.drone_mode = 0 THEN 1 ELSE 3],
                           "mydrone", TRUE)
          IN IF isPlaying(a, "mydrone")
               THEN Retrigger(a, "mydrone") ELSE a
        ELSE IF w.drone_mode = 1 \/ w.drone_mode = 3 THEN
          LET a == setMute([w EXCEPT !.drone_mode = IF w.drone_mode = 1 THEN 0 ELSE 2],
                           "mydrone", FALSE)
          IN IF isPlaying(a, "mydrone")
               THEN Retrigger(a, "mydrone") ELSE a
        ELSE w
  IN Refresh(body)

cycle_drone_mute(w) ==
  LET body ==
        IF w.drone_mode = 0 \/ w.drone_mode = 2 THEN
          LET a == setMute([w EXCEPT !.drone_mode = IF w.drone_mode = 0 THEN 3 ELSE 1],
                           "mydrone", TRUE)
          IN IF isPlaying(a, "mydrone")
               THEN Retrigger(a, "mydrone") ELSE a
        ELSE IF w.drone_mode = 1 \/ w.drone_mode = 3 THEN
          LET a == setMute([w EXCEPT !.drone_mode = IF w.drone_mode = 1 THEN 2 ELSE 0],
                           "mydrone", FALSE)
          IN IF isPlaying(a, "mydrone")
               THEN Retrigger(a, "mydrone") ELSE a
        ELSE w
  IN Refresh(body)

\* cycle_tromp_mute that forgets the buzz string
cycle_tromp_mute_noBuzz(w) ==
  LET body ==
        IF w.t_mode = 0 THEN
          LET a == setMute([w EXCEPT !.t_mode = 1], "mytromp", TRUE)
          IN IF isPlaying(a, "mytromp")
               THEN Retrigger(a, "mytromp") ELSE a
        ELSE IF w.t_mode = 1 THEN
          LET a == setMute([w EXCEPT !.t_mode = 0], "mytromp", FALSE)
          IN IF isPlaying(a, "mytromp")
               THEN Retrigger(a, "mytromp") ELSE a
        ELSE w
  IN Refresh(body)

cycle_tromp_mute(w) ==
  LET body ==
        IF w.t_mode = 0 THEN
          LET a == setMute(setMute([w EXCEPT !.t_mode = 1],
                                   "mytromp", TRUE), "mybuzz", TRUE)
          IN IF isPlaying(a, "mytromp")
               THEN Retrigger(a, "mytromp") ELSE a
        ELSE IF w.t_mode = 1 THEN
          LET a == setMute(setMute([w EXCEPT !.t_mode = 0],
                                   "mytromp", FALSE), "mybuzz", FALSE)
          IN IF isPlaying(a, "mytromp")
               THEN Retrigger(a, "mytromp") ELSE a
        ELSE w
  IN Refresh(body)

----------------------------------------------------------------------------
(* Specification of the string voices: the public methods of GurdyString   *)
(* called in any order, soundOn only on a string that is not playing (the  *)
(* @warning of soundOn).                                                   *)

TestVoices == {"mystring", "mydrone"}

Call_soundOn(v, o, m) ==
  /\ ~isPlaying(World, v)
  /\ Becomes(soundOn(Entry, v, o, m), <<"soundOn", v, o>>)

Call_soundOff(v) == Becomes(soundOff(Entry, v), <<"soundOff", v, 0>>)

Call_soundKill(v) == Becomes(soundKill(Entry, v), <<"soundKill", v, 0>>)

Call_setOpenNote(v, n) == Becomes(setOpenNote(Entry, v, n), <<"setOpenNote", v, n>>)

Call_setVolume(v, vol) == Becomes(setVolume(Entry, v, vol), <<"setVolume", v, vol>>)

Call_setMute(v, m) ==
  Becomes(setMute(Entry, v, m), <<"setMute", v, IF m THEN 1 ELSE 0>>)

Call_setProgram(v, program) ==
  Becomes(setProgram(Entry, v, program), <<"setProgram", v, program>>)

Call_setExpression(v, exp) ==
  Becomes(setExpression(Entry, v, exp), <<"setExpression", v, exp>>)

Call_setPitchBend(v, bend) ==
  Becomes(setPitchBend(Entry, v, bend), <<"setPitchBend", v, bend>>)

Call_setVibrato(v, vib) ==
  Becomes(setVibrato(Entry, v, vib), <<"setVibrato", v, vib>>)

NextVoice ==
  \/ \E v \in TestVoices, o \in 0..MaxOffset, m \in Modulations : Call_soundOn(v, o, m)
  \/ \E v \in TestVoices : Call_soundOff(v)
  \/ \E v \in TestVoices : Call_soundKill(v)
  \/ \E v \in {"mystring"}, k \in 0..MaxOpenStep : Call_setOpenNote(v, BaseNote(v) + k)
  \/ \E v \in {"mystring"}, vol \in Volumes : Call_setVolume(v, vol)
  \/ \E v \in TestVoices, m \in BOOLEAN : Call_setMute(v, m)
  \/ \E v \in {"mystring"}, program \in Programs : Call_setProgram(v, program)
  \/ \E v \in {"mystring"}, exp \in Expressions : Call_setExpression(v, exp)
  \/ \E v \in {"mystring"}, bend \in Bends : Call_setPitchBend(v, bend)
  \/ \E v \in {"mystring"}, vib \in Modulations \ {0} : Call_setVibrato(v, vib)

SpecVoice == Init /\ [][NextVoice]_vars

----------------------------------------------------------------------------
(* Specification of the mute cycling: the four functions of exfunctions.cpp *)
(* called in any order, while the strings are started and stopped.          *)

\* the melody strings are started at the key offset, the others open
StartOffset(v) == IF v \in MelodyVoices THEN myoffset ELSE 0

Start(v) ==
  /\ ~isPlaying(World, v)
  /\ Becomes(soundOn(Entry, v, StartOffset(v), 0), <<"soundOn", v, StartOffset(v)>>)

Stop(v) ==
  /\ isPlaying(World, v)
  /\ Becomes(soundOff(Entry, v), <<"soundOff", v, 0>>)

Do_cycle_mel_mute == Becomes(cycle_mel_mute(Entry), <<"cycle_mel_mute", "", 0>>)

Do_cycle_drone_tromp_mute ==
  Becomes(cycle_drone_tromp_mute(Entry), <<"cycle_drone_tromp_mute", "", 0>>)

Do_cycle_drone_mute == Becomes(cycle_drone_mute(Entry), <<"cycle_drone_mute", "", 0>>)

Do_cycle_tromp_mute == Becomes(cycle_tromp_mute(Entry), <<"cycle_tromp_mute", "", 0>>)

NextCycle ==
  \/ \E v \in Voices : Start(v)
  \/ \E v \in Voices : Stop(v)
  \/ Do_cycle_mel_mute
  \/ Do_cycle_drone_tromp_mute
  \/ Do_cycle_drone_mute
  \/ Do_cycle_tromp_mute

SpecCycle == Init /\ [][NextCycle]_vars

----------------------------------------------------------------------------
(* Specification of the geared crank: one update per voltage sample *)

Update(voltage) ==
  /\ crank' = crankUpdate(crank, voltage)
  /\ crank_h' = Runs(crank_h, crank, voltage)
  /\ UNCHANGED <<build, str, mel_mode, drone_mode, t_mode, myoffset,
                 tpose_offset, synth, sent, disp, last_on, op>>

NextSpin == \E voltage \in Voltages : Update(voltage)

InitSpin == Init /\ build = "MIDI" /\ myoffset = 0

SpecSpin == InitSpin /\ [][NextSpin]_vars

----------------------------------------------------------------------------
(* Specification of the volume of one string: constructed with any MIDI    *)
(* volume, then setVolume, soundOn and soundOff in any order.              *)

InitVolume ==
  /\ build \in Builds
  /\ \E my_vol \in 0..MaxVolume :
       str = [v \in Voices |->
                GurdyString(Channel(v), BaseNote(v), v,
                            IF v = "mystring" THEN my_vol ELSE BaseVolume)]
  /\ mel_mode = 0
  /\ drone_mode = 0
  /\ t_mode = 0
  /\ myoffset = 0
  /\ tpose_offset \in Tposes
  /\ synth = [p \in Ports |-> NoNotes]
  /\ sent = <<>>
  /\ disp = <<>>
  /\ last_on = [v \in Voices |-> NeverOn]
  /\ op = <<"init", "", 0>>
  /\ crank = CrankAtRest
  /\ crank_h = NoRuns

NextVolume ==
  \/ \E vol \in 0..MaxVolume : Call_setVolume("mystring", vol)
  \/ Call_soundOn("mystring", 0, 0)
  \/ Call_soundOff("mystring")

SpecVolume == InitVolume /\ [][NextVolume]_vars

----------------------------------------------------------------------------
(* Vocabulary of the properties *)

\* the ports a build writes to: USB MIDI always, then serial MIDI or the
\* WAV Trigger / Tsunami
ActivePorts == {"usbMIDI"} \cup (IF build = "MIDI" THEN {"MIDI"} ELSE {"trigger_obj"})
ActiveMidiPorts == ActivePorts \ {"trigger_obj"}

\* the notes outstanding for string v at port p
Sounding(p, v) == synth[p][str[v].midi_channel]

IsNoteOff(c) == c.cmd = "sendNoteOff"
NoteOffs(cs) == SelectSeq(cs, IsNoteOff)

IsUsb(c) == c.port = "usbMIDI"
IsSerial(c) == c.port = "MIDI"
IsTrigger(c) == c.port = "trigger_obj"

----------------------------------------------------------------------------
(* Properties of the string voices, under SpecVoice *)

\* C1 as stated: a soundOff on a string started by soundOn leaves it not
\* playing and emits exactly one note-off command, for the note of that soundOn.
C1_OneNoteOff ==
  [][\A v \in Voices :
       (op' = <<"soundOff", v, 0>> /\ str[v].is_playing) =>
         /\ ~str'[v].is_playing
         /\ Len(NoteOffs(sent')) = 1
         /\ NoteOffs(sent')[1].id = last_on[v].note]_vars

\* C1 amended: a soundOff on a string started by soundOn leaves it not playing
\* and emits exactly one stop on each port of the build, for the note
\* open_note+offset of that soundOn: one note-off on USB MIDI and, on the
\* second port, one note-off (serial MIDI) or one trackFade of the note's track.
C1_OneNoteOffPerPort ==
  [][\A v \in Voices :
       (op' = <<"soundOff", v, 0>> /\ str[v].is_playing) =>
         LET n == last_on[v].note
             ch == str[v].midi_channel
             vol == str[v].midi_volume
             trig == SelectSeq(sent', IsTrigger)
         IN /\ ~str'[v].is_playing
            /\ SelectSeq(sent', IsUsb) = <<Cmd("usbMIDI", "sendNoteOff", n, vol, ch)>>
            /\ build = "MIDI" =>
                 /\ SelectSeq(sent', IsSerial) = <<Cmd("MIDI", "sendNoteOff", n, vol, ch)>>
                 /\ trig = <<>>
            /\ build # "MIDI" =>
                 /\ SelectSeq(sent', IsSerial) = <<>>
                 /\ Len(trig) = 1
                 /\ trig[1].cmd = "trackFade"
                 /\ trig[1].id = n + 128 * (ch - 1)]_vars

\* a soundOff has stopped mystring, which was started at offset 0 from the
\* base note, and was retuned and muted before the soundOff
C1_Witness ==
  /\ op = <<"soundOff", "mystring", 0>>
  /\ ~str["mystring"].is_playing
  /\ str["mystring"].note_being_played = BaseNote("mystring")
  /\ str["mystring"].open_note = BaseNote("mystring") + 1
  /\ str["mystring"].mute_on
  /\ Len(sent) = 2
  /\ sent[1].id = BaseNote("mystring")
  /\ Sounding("usbMIDI", "mystring") = <<>>

\* C2 as stated: a playing string has exactly one note sounding on its channel.
C2_ExactlyOneSounding ==
  \A v \in Voices :
    str[v].is_playing => \A p \in ActivePorts : Len(Sounding(p, v)) = 1

\* C2 amended: a playing string has at most one note sounding on its channel
\* at every port; at the MIDI ports it is exactly the note of its soundOn if
\* the string was unmuted when soundOn was called, and none if it was muted.
C2_AtMostOneSounding ==
  \A v \in Voices :
    str[v].is_playing =>
      /\ \A p \in ActivePorts : Len(Sounding(p, v)) <= 1
      /\ \A p \in ActiveMidiPorts :
           Sounding(p, v) = IF last_on[v].muted THEN <<>> ELSE <<last_on[v].note>>

\* mystring was started while muted and unmuted afterwards: it is playing,
\* unmuted, and silent
C2_Witness ==
  /\ str["mystring"].is_playing
  /\ last_on["mystring"].muted
  /\ ~str["mystring"].mute_on
  /\ \A p \in ActivePorts : Sounding(p, "mystring") = <<>>

\* C3: soundOn, soundOff and soundKill on a muted string emit no command.
C3_MutedEmitsNothing ==
  [][\A v \in Voices :
       (op'[1] \in {"soundOn", "soundOff", "soundKill"} /\ op'[2] = v /\ str[v].mute_on)
         => sent' = <<>>]_vars

\* C4: setMute(m) emits no command and changes nothing but the mute flag,
\* which becomes m.
C4_SetMuteFrame ==
  [][\A v \in Voices, m \in BOOLEAN :
       op' = <<"setMute", v, IF m THEN 1 ELSE 0>> =>
         /\ sent' = <<>>
         /\ synth' = synth
         /\ str'[v].mute_on = m
         /\ str' = [str EXCEPT ![v].mute_on = m]
         /\ <<mel_mode', drone_mode', t_mode'>> = <<mel_mode, drone_mode, t_mode>>]_vars

\* setMute(true) has just been called on mystring while it plays and sounds
C4_Witness ==
  /\ op = <<"setMute", "mystring", 1>>
  /\ str["mystring"].mute_on
  /\ str["mystring"].is_playing
  /\ Sounding("usbMIDI", "mystring") # <<>>
  /\ sent = <<>>

----------------------------------------------------------------------------
(* Properties of the mute cycling, under SpecCycle *)

Muted(v) == str[v].mute_on

\* <<high muted, low muted>> of a melody state
MelMutesOf(st) == CASE st = "BOTH_ON" -> <<FALSE, FALSE>>
                    [] st = "HIGH_ONLY" -> <<FALSE, TRUE>>
                    [] st = "LOW_ONLY" -> <<TRUE, FALSE>>

MelSucc(st) == CASE st = "BOTH_ON" -> "HIGH_ONLY"
                 [] st = "HIGH_ONLY" -> "LOW_ONLY"
                 [] st = "LOW_ONLY" -> "BOTH_ON"

\* <<drone muted, trompette muted>> of a drone/trompette state
DroneMutesOf(st) == CASE st = "BOTH_ON" -> <<FALSE, FALSE>>
                      [] st = "BOTH_OFF" -> <<TRUE, TRUE>>
                      [] st = "DRONE_ONLY" -> <<FALSE, TRUE>>
                      [] st = "TROMP_ONLY" -> <<TRUE, FALSE>>

DroneSucc(st) == CASE st = "BOTH_OFF" -> "DRONE_ONLY"
                   [] st = "DRONE_ONLY" -> "TROMP_ONLY"
                   [] st = "TROMP_ONLY" -> "BOTH_ON"
                   [] st = "BOTH_ON" -> "BOTH_OFF"

\* C5: each cycle_mel_mute moves BOTH_ON -> HIGH_ONLY -> LOW_ONLY -> BOTH_ON
\* and sets the two melody mute flags of the state it enters; three
\* consecutive calls restore mel_mode and both melody mute flags.
C5_MelCycle ==
  /\ [](LET w3 == cycle_mel_mute(cycle_mel_mute(cycle_mel_mute(Entry)))
        IN /\ w3.mel_mode = mel_mode
           /\ getMute(w3, "mystring") = Muted("mystring")
           /\ getMute(w3, "mylowstring") = Muted("mylowstring"))
  /\ [][op'[1] = "cycle_mel_mute" =>
          /\ MelState(mel_mode') = MelSucc(MelState(mel_mode))
          /\ <<str'["mystring"].mute_on, str'["mylowstring"].mute_on>>
               = MelMutesOf(MelState(mel_mode'))]_vars

\* a cycle_mel_mute has come back to BOTH_ON (from LOW_ONLY) while the high
\* melody string plays
C5_Witness ==
  /\ op[1] = "cycle_mel_mute"
  /\ mel_mode = 0
  /\ ~Muted("mystring") /\ ~Muted("mylowstring")
  /\ str["mystring"].is_playing
  /\ Sounding("usbMIDI", "mystring") # <<>>

\* C6: each cycle_drone_tromp_mute moves BOTH_OFF -> DRONE_ONLY -> TROMP_ONLY
\* -> BOTH_ON -> BOTH_OFF and sets the drone and trompette mute flags of the
\* state it enters; four consecutive calls from BOTH_OFF come back to BOTH_OFF.
C6_DroneTrompCycle ==
  /\ [](DroneState(drone_mode) = "BOTH_OFF" =>
          LET w4 == cycle_drone_tromp_mute(cycle_drone_tromp_mute(
                      cycle_drone_tromp_mute(cycle_drone_tromp_mute(Entry))))
          IN /\ DroneState(w4.drone_mode) = "BOTH_OFF"
             /\ getMute(w4, "mydrone") /\ getMute(w4, "mytromp"))
  /\ [][op'[1] = "cycle_drone_tromp_mute" =>
          /\ DroneState(drone_mode') = DroneSucc(DroneState(drone_mode))
          /\ <<str'["mydrone"].mute_on, str'["mytromp"].mute_on>>
               = DroneMutesOf(DroneState(drone_mode'))]_vars

\* a cycle_drone_tromp_mute has entered TROMP_ONLY while the drone plays
C6_Witness ==
  /\ op[1] = "cycle_drone_tromp_mute"
  /\ drone_mode = 3
  /\ Muted("mydrone") /\ ~Muted("mytromp")
  /\ str["mydrone"].is_playing

\* C7: the high and the low melody string are never both muted.
C7_NeverBothMelodyMuted == ~(Muted("mystring") /\ Muted("mylowstring"))

\* a cycle_mel_mute has muted the high string
C7_Witness ==
  /\ op[1] = "cycle_mel_mute"
  /\ Muted("mystring")
  /\ ~Muted("mylowstring")
  /\ drone_mode # 0 /\ t_mode # 0

\* C8: the buzz string's mute flag equals the trompette string's.
C8_BuzzMirrorsTromp == Muted("mybuzz") = Muted("mytromp")

\* a cycle_tromp_mute has muted trompette and buzz after the four-state cycle
\* had unmuted them
C8_Witness ==
  /\ op[1] = "cycle_tromp_mute"
  /\ Muted("mytromp") /\ Muted("mybuzz")
  /\ drone_mode = 3

\* C9: every cycle_drone_mute leaves the trompette's and the buzz's mute flag
\* unchanged and flips the drone's.
C9_DroneToggleFrame ==
  [][op'[1] = "cycle_drone_mute" =>
       /\ str'["mytromp"].mute_on = str["mytromp"].mute_on
       /\ str'["mybuzz"].mute_on = str["mybuzz"].mute_on
       /\ str'["mydrone"].mute_on = ~str["mydrone"].mute_on]_vars

\* a cycle_drone_mute has muted the playing drone after cycle_tromp_mute had
\* muted the trompette behind drone_mode's back
C9_Witness ==
  /\ op[1] = "cycle_drone_mute"
  /\ drone_mode = 3
  /\ Muted("mydrone") /\ Muted("mytromp")
  /\ str["mydrone"].is_playing

\* the other state of a pair of the drone toggle, as the claim pairs them
ClaimedDronePartner(st) == CASE st = "BOTH_OFF" -> "TROMP_ONLY"
                             [] st = "TROMP_ONLY" -> "BOTH_OFF"
                             [] st = "DRONE_ONLY" -> "BOTH_ON"
                             [] st = "BOTH_ON" -> "DRONE_ONLY"

\* and as the drone flag alone changing pairs them
DronePartner(st) == CASE st = "BOTH_OFF" -> "DRONE_ONLY"
                      [] st = "DRONE_ONLY" -> "BOTH_OFF"
                      [] st = "TROMP_ONLY" -> "BOTH_ON"
                      [] st = "BOTH_ON" -> "TROMP_ONLY"

\* C10 as stated: cycle_drone_mute moves the mode within {BOTH_OFF, TROMP_ONLY}
\* and within {DRONE_ONLY, BOTH_ON}.
C10_ClaimedPairs ==
  [][op'[1] = "cycle_drone_mute" =>
       DroneState(drone_mode') = ClaimedDronePartner(DroneState(drone_mode))]_vars

\* C10 amended: cycle_drone_mute moves the mode within {BOTH_OFF, DRONE_ONLY}
\* and within {TROMP_ONLY, BOTH_ON}, to the other state of the pair, never
\* across the pairs.
C10_DronePairs ==
  [][op'[1] = "cycle_drone_mute" =>
       DroneState(drone_mode') = DronePartner(DroneState(drone_mode))]_vars

\* a cycle_drone_mute has gone from BOTH_OFF to DRONE_ONLY
C10_Witness ==
  /\ op[1] = "cycle_drone_mute"
  /\ DroneState(drone_mode) = "DRONE_ONLY"
  /\ ~Muted("mydrone") /\ Muted("mytromp")
  /\ t_mode = 0

----------------------------------------------------------------------------
(* Further properties of the mute cycling, under SpecCycle *)

CycleOps == {"cycle_mel_mute", "cycle_drone_tromp_mute",
             "cycle_drone_mute", "cycle_tromp_mute"}

\* string v has a note-on not yet followed by a note-off at some port
Audible(v) == \E p \in ActivePorts : Sounding(p, v) # <<>>

IsUsbNoteOff(c) == c.port = "usbMIDI" /\ c.cmd = "sendNoteOff"

\* the channels on which the commands cs turn a note off
NoteOffChannels(cs) ==
  LET offs == SelectSeq(cs, IsUsbNoteOff)
  IN {offs[i].ch : i \in 1..Len(offs)}

\* C11: every cycle_tromp_mute flips the trompette's and the buzz's mute flag.
C11_TrompToggleFlips ==
  [][op'[1] = "cycle_tromp_mute" =>
       /\ str'["mytromp"].mute_on = ~str["mytromp"].mute_on
       /\ str'["mybuzz"].mute_on = ~str["mybuzz"].mute_on]_vars

\* C12: after a cycle/toggle operation called while all strings play, every
\* string is audible exactly if it is playing and not muted.
C12_MuteAudibleAtOnce ==
  [][(op'[1] \in CycleOps /\ \A v \in Voices : str[v].is_playing) =>
       \A v \in Voices :
         Audible(v)' <=> (str'[v].is_playing /\ ~str'[v].mute_on)]_vars

\* C13: a string that was playing and is re-triggered by a cycle/toggle
\* operation tracks and sounds the same note afterwards as before.
C13_RetriggerKeepsNote ==
  [][op'[1] \in CycleOps =>
       \A v \in Voices :
         (str[v].is_playing /\ str[v].midi_channel \in NoteOffChannels(sent')) =>
           /\ str'[v].note_being_played = str[v].note_being_played
           /\ \A p \in ActivePorts :
                Sounding(p, v)' \in {<<>>, <<str[v].note_being_played>>}]_vars

\* mute flags as print_display receives them: arguments 8 to 11
DisplayedMutes(d) == <<d.args[8], d.args[9], d.args[10], d.args[11]>>

\* C14: every cycle/toggle operation makes exactly one display call: the play
\* screen at open_note + transpose + key offset of mystring if mystring plays
\* after the operation, else the idle view with the mute flags as they are
\* after the operation.
C14_OneRefresh ==
  [][op'[1] \in CycleOps =>
       /\ Len(disp') = 1
       /\ str'["mystring"].is_playing =>
            disp'[1] = [fn |-> "draw_play_screen",
                        args |-> <<str'["mystring"].open_note + tpose_offset + myoffset,
                                   play_screen_type, FALSE>>]
       /\ ~str'["mystring"].is_playing =>
            /\ disp'[1].fn = "print_display"
            /\ DisplayedMutes(disp'[1]) =
                 <<str'["mystring"].mute_on, str'["mylowstring"].mute_on,
                   str'["mydrone"].mute_on, str'["mytromp"].mute_on>>]_vars

\* a cycle_mel_mute has muted the playing mystring, pressed at a key, and
\* has redrawn the play screen
C14_Witness ==
  /\ op[1] = "cycle_mel_mute"
  /\ str["mystring"].is_playing
  /\ str["mystring"].mute_on
  /\ myoffset > 0
  /\ Len(disp) = 1
  /\ disp[1].fn = "draw_play_screen"

\* C20: drone_mode encodes the drone and trompette mute flags, and t_mode is
\* 1 exactly when the trompette is muted.
C20_ModesDescribeFlags ==
  /\ <<Muted("mydrone"), Muted("mytromp")>> = DroneMutesOf(DroneState(drone_mode))
  /\ (t_mode = 1) <=> Muted("mytromp")

----------------------------------------------------------------------------
(* Transports, under SpecVoice *)

VoiceCommands == {"soundOn", "soundOff", "soundKill", "setExpression",
                  "setPitchBend", "setVibrato", "setProgram"}

Controllers == {"setExpression", "setPitchBend", "setVibrato", "setProgram"}

\* USB MIDI and serial MIDI are the MIDI family, the WAV Trigger and the
\* Tsunami the gain-track family
Family(p) == IF p = "trigger_obj" THEN "track" ELSE "midi"

PortsUsed(cs) == {cs[i].port : i \in 1..Len(cs)}

\* C15 as stated: no command of a voice writes to two transport families.
C15_OneFamily ==
  [][op'[1] \in VoiceCommands =>
       Cardinality({Family(p) : p \in PortsUsed(sent')}) <= 1]_vars

\* C15 amended: every command of a voice writes to USB MIDI and to at most one
\* further transport, the one of the build: serial MIDI in the plain build,
\* the WAV Trigger / Tsunami in the trigger builds (soundOn, soundOff,
\* soundKill only); never to serial MIDI and the trigger in the same call.
C15_UsbPlusBuildTransport ==
  [][op'[1] \in VoiceCommands =>
       LET used == PortsUsed(sent')
       IN /\ used \subseteq ActivePorts
          /\ ~({"MIDI", "trigger_obj"} \subseteq used)
          /\ sent' # <<>> => "usbMIDI" \in used
          /\ (sent' # <<>> /\ build = "MIDI") => used = {"usbMIDI", "MIDI"}
          /\ (op'[1] \in Controllers /\ build # "MIDI") => used = {"usbMIDI"}]_vars

\* a soundKill on a Tsunami build has written to USB MIDI and to the Tsunami
C15_Witness ==
  /\ op = <<"soundKill", "mystring", 0>>
  /\ build = "USE_TSUNAMI"
  /\ PortsUsed(sent) = {"usbMIDI", "trigger_obj"}

----------------------------------------------------------------------------
(* Properties of the geared crank, under SpecSpin *)

Motion == crank.voltage > VOL_THRESHOLD

\* C16: spin stays in 0..MAX_SPIN; a motion sample adds SPIN_WEIGHT capped at
\* MAX_SPIN and never decreases spin, any other sample subtracts SPIN_DECAY
\* floored at 0 and never increases it; n motion samples from spin 0 give
\* min(n * SPIN_WEIGHT, MAX_SPIN): 7500 after three, 7600 after four.
C16_SpinRange ==
  /\ [](/\ crank.spin \in 0..MAX_SPIN
        /\ crank_h.rise >= 0 => crank.spin = Min(crank_h.rise * SPIN_WEIGHT, MAX_SPIN)
        /\ crank_h.rise = 3 => crank.spin = 7500
        /\ crank_h.rise = 4 => crank.spin = 7600)
  /\ [][/\ Motion' => /\ crank'.spin = Min(crank.spin + SPIN_WEIGHT, MAX_SPIN)
                      /\ crank'.spin >= crank.spin
        /\ ~Motion' => /\ crank'.spin = Max(crank.spin - SPIN_DECAY, 0)
                       /\ crank'.spin <= crank.spin]_vars

\* the fourth motion sample in a row from rest has been capped
C16_Witness ==
  /\ crank_h.rise = 4
  /\ crank.spin = MAX_SPIN
  /\ Motion

CeilDiv(a, b) == (a + b - 1) \div b

\* C17: from spin = MAX_SPIN, still samples strictly decrease spin until it
\* is 0; spin is 0 exactly from the ceil(MAX_SPIN / SPIN_DECAY)-th sample of
\* the run on, the 38th.
C17_DecayToZero ==
  /\ [](crank_h.fall >= 0 =>
          /\ crank.spin = Max(MAX_SPIN - crank_h.fall * SPIN_DECAY, 0)
          /\ (crank.spin = 0) <=> (crank_h.fall >= CeilDiv(MAX_SPIN, SPIN_DECAY))
          /\ (crank.spin = 0) <=> (crank_h.fall >= 38))
  /\ [][(crank_h'.fall >= 0 /\ crank.spin > 0) => crank'.spin < crank.spin]_vars
  /\ [][(crank_h'.fall >= 0 /\ crank.spin = 0) => crank'.spin = 0]_vars

\* the 38th still sample in a row from full spin has brought spin to 0
C17_Witness ==
  /\ crank_h.fall = 38
  /\ crank.spin = 0
  /\ ~Motion

\* C18: sound starts only on an update that leaves spin >= SPIN_THRESHOLD, and
\* does start there; once on, it stays on after every update that leaves
\* spin >= SPIN_STOP_THRESHOLD and stops on an update that leaves it below.
C18_Hysteresis ==
  [][/\ (~crank.spinning /\ crank'.spinning) => crank'.spin >= SPIN_THRESHOLD
     /\ (~crank.spinning /\ crank'.spin >= SPIN_THRESHOLD) => crank'.spinning
     /\ (crank.spinning /\ ~crank'.spinning) => crank'.spin < SPIN_STOP_THRESHOLD
     /\ (crank.spinning /\ crank'.spin >= SPIN_STOP_THRESHOLD) => crank'.spinning
     /\ (crank.spinning /\ crank'.spin < SPIN_STOP_THRESHOLD) => ~crank'.spinning]_vars

\* the sound is kept on with spin between the two thresholds
C18_Witness ==
  /\ crank.spinning
  /\ crank.spin < SPIN_THRESHOLD
  /\ crank.spin >= SPIN_STOP_THRESHOLD
  /\ ~Motion

\* C19: the buzz is active exactly while the counter is positive; after the
\* update that sets the counter to BUZZ_SMOOTHING the buzz is active on that
\* update and the 249 following ones, 250 in all, and inactive from then on.
C19_BuzzDuration ==
  /\ crank_h.since >= 0 =>
       /\ crank.buzz_smoothing = Max(BUZZ_SMOOTHING - crank_h.since * BUZZ_DECAY, 0)
       /\ isBuzzing(crank) <=> crank_h.since < 250
  /\ crank_h.since = -1 => ~isBuzzing(crank)

\* the 250th update after a buzz trigger, a motion sample under the knob's
\* voltage: the buzz has just stopped
C19_Witness ==
  /\ crank_h.since = 250
  /\ ~isBuzzing(crank)
  /\ Motion

----------------------------------------------------------------------------
(* Notes outstanding and playing flags across the mute cycling, under       *)
(* SpecCycle                                                                *)

\* the commands of cs that go to USB MIDI, in order
UsbCommands(cs) == SelectSeq(cs, IsUsb)

IsUsbNoteOn(c) == c.port = "usbMIDI" /\ c.cmd = "sendNoteOn"

\* the channels on which the commands cs turn a note on
NoteOnChannels(cs) ==
  LET ons == SelectSeq(cs, IsUsbNoteOn)
  IN {ons[i].ch : i \in 1..Len(ons)}

\* C21: no string ever has two notes outstanding at a port, and in a
\* cycle/toggle operation every note-on directly follows a note-off on the
\* same channel.
C21_AtMostOneNote ==
  /\ [](\A v \in Voices, p \in Ports : Len(Sounding(p, v)) <= 1)
  /\ [][op'[1] \in CycleOps =>
          LET usb == UsbCommands(sent')
          IN \A i \in 1..Len(usb) :
               usb[i].cmd = "sendNoteOn" =>
                 /\ i > 1
                 /\ usb[i - 1].cmd = "sendNoteOff"
                 /\ usb[i - 1].ch = usb[i].ch]_vars

\* a cycle_mel_mute has come back to BOTH_ON and re-triggered the playing
\* mystring, which sounds one note
C21_Witness ==
  /\ op[1] = "cycle_mel_mute"
  /\ mel_mode = 0
  /\ str["mystring"].midi_channel \in NoteOnChannels(sent)
  /\ str["mystring"].midi_channel \in NoteOffChannels(sent)
  /\ \A p \in ActivePorts : Len(Sounding(p, "mystring")) = 1

\* C22: a cycle/toggle operation leaves every string's isPlaying() as it
\* was, and sends no note-on and no note-off to a string that was not playing.
C22_PlayingUnchanged ==
  [][op'[1] \in CycleOps =>
       \A v \in Voices :
         /\ str'[v].is_playing = str[v].is_playing
         /\ ~str[v].is_playing =>
              /\ str[v].midi_channel \notin NoteOnChannels(sent')
              /\ str[v].midi_channel \notin NoteOffChannels(sent')]_vars

----------------------------------------------------------------------------
(* Properties of the derived gain, under SpecVolume *)

IsTrackFade(c) == c.port = "trigger_obj" /\ c.cmd = "trackFade"

\* the gains the commands cs fade a track to
FadeTargets(cs) ==
  LET fades == SelectSeq(cs, IsTrackFade)
  IN {fades[i].val : i \in 1..Len(fades)}

\* g is x / 128 with its fraction dropped
IsTrunc128(g, x) ==
  IF x >= 0 THEN 128 * g <= x /\ x < 128 * g + 128
  ELSE 128 * g >= x /\ x > 128 * g - 128

\* C23: for every MIDI volume 0..127 given to the constructor or to
\* setVolume, trigger_volume is trunc(v*80/128 - 70), lies in -70..10, is
\* non-decreasing in v, is 0 at v = 112 and is what the constructor derives
\* from the same volume; and on the WAV Trigger / Tsunami builds soundOff
\* fades to trigger_volume - 10 when trigger_volume > -60, else to -70,
\* which is never below -70.
C23_TriggerGain ==
  /\ [](\A v \in Voices :
          LET s == str[v]
              vol == s.midi_volume
              tv == s.trigger_volume
          IN /\ vol \in 0..MaxVolume
             /\ tv \in -70..10
             /\ IsTrunc128(tv, vol * 80 - 70 * 128)
             /\ tv = GurdyString(s.midi_channel, s.open_note, s.name, vol).trigger_volume
             /\ vol = 112 => tv = 0
             /\ \A u \in 0..vol :
                  GurdyString(s.midi_channel, s.open_note, s.name, u).trigger_volume <= tv)
  /\ [][op'[1] = "soundOff" =>
          LET tv == str[op'[2]].trigger_volume
          IN IF build = "MIDI" THEN FadeTargets(sent') = {}
             ELSE /\ FadeTargets(sent') = {IF tv > -60 THEN tv - 10 ELSE -70}
                  /\ \A g \in FadeTargets(sent') : g >= -70]_vars

\* a string set to full volume on a WAV Trigger build has just faded out
C23_Witness ==
  /\ build = "USE_TRIGGER"
  /\ op = <<"soundOff", "mystring", 0>>
  /\ str["mystring"].midi_volume = MaxVolume
  /\ str["mystring"].trigger_volume = 9
  /\ FadeTargets(sent) = {-1}

====
